---- MODULE Spec2Model ----
(***************************************************************************)
(* A model of simplypipe's Pipe (src/simplypipe/core/pipe.py): a builder   *)
(* holding a source and a list of operator closures, and run(), which      *)
(* composes the operators into a chain of generators over a counting       *)
(* source and pulls the chain to exhaustion.                               *)
(*                                                                         *)
(* Generators are modelled by their protocol.  Stage 0 is run()'s _source  *)
(* generator, stage i (1..Len(ops)) is the generator of ops[i], and the    *)
(* consumer of the last stage is run()'s for loop.  One control token,     *)
(* ctl, says where the single thread of control is:                        *)
(*   next  at i : next() was called on stage i                             *)
(*   yield at i : stage i yielded ctl.v to its consumer                    *)
(*   stop  at i : stage i ended (StopIteration reaches its consumer)       *)
(*   raise at i : exception ctl.exc left stage i into its consumer         *)
(***************************************************************************)
EXTENDS Integers, Sequences, FiniteSets, TLC

\* ------------------------------------------------------------- bounds
MaxItem == 2
MaxSrc == 3
MaxOps == 2
MaxParam == 2
MaxDrift == 1

\* ------------------------------------------------------------- values
\* Python values that flow through a chain: an int item, a list (a batch, or
\* the iterable a flat_map function returns), a bool, and None.
Item(x) == [i |-> x]
List(s) == [l |-> s]
Bool(b) == [b |-> b]
None == [none |-> TRUE]
IsItem(v) == "i" \in DOMAIN v
IsList(v) == "l" \in DOMAIN v

\* An exception object: its type and its identity (the number of the call
\* that raised it).  NoExc stands for "no exception" (last_exc = None).
Exc(t, id) == [typ |-> t, id |-> id]
NoExc == Exc("none", 0)

\* `except exceptions as e`: a tuple of exception classes matches an exception
\* whose class is in it; Exception is the base class of the modelled types.
MatchesAnything(e, excs) == TRUE
Matches(e, excs) == e.typ \in excs \/ "Exception" \in excs

\* The outcome of calling a user-supplied function: a returned value or a
\* raised exception type.
Ok(v) == [ok |-> TRUE, val |-> v, typ |-> "none"]
Err(t) == [ok |-> FALSE, val |-> None, typ |-> t]

\* The user-supplied functions the checked chains use (callers' lambdas, as
\* in the test-suite): the set of outcomes a call of fn on v can have.
\*   inc    lambda x: x % MaxItem + 1     (TypeError on a list)
\*   even   lambda x: x % 2 == 0          (TypeError on a list)
\*   dup    lambda x: [x, x]
\*   skip2  lambda x: [] if x == 2 else [x]
\*   fail2  raises ValueError on 2, else returns x * 1
\*   flaky  a stateful function: any call may return inc(x), raise
\*          ValueError or raise TypeError
\*   note   records its argument and returns None (side.append)
\*   boom   always raises RuntimeError
\*   parity lambda x: x % 2               (TypeError on a list)
Outcomes(fn, v) ==
  CASE fn = "inc" -> IF IsItem(v) THEN {Ok(Item((v.i % MaxItem) + 1))}
                     ELSE {Err("TypeError")}
    [] fn = "even" -> IF IsItem(v) THEN {Ok(Bool(v.i % 2 = 0))}
                      ELSE {Err("TypeError")}
    [] fn = "dup" -> {Ok(List(<<v, v>>))}
    [] fn = "skip2" -> IF v = Item(2) THEN {Ok(List(<<>>))} ELSE {Ok(List(<<v>>))}
    [] fn = "fail2" -> IF v = Item(2) THEN {Err("ValueError")} ELSE {Ok(v)}
    [] fn = "flaky" -> (IF IsItem(v) THEN {Ok(Item((v.i % MaxItem) + 1))} ELSE {Ok(v)})
                       \cup {Err("ValueError"), Err("TypeError")}
    [] fn = "note" -> {Ok(None)}
    [] fn = "boom" -> {Err("RuntimeError")}
    [] fn = "parity" -> IF IsItem(v) THEN {Ok(Item(v.i % 2))} ELSE {Err("TypeError")}
    [] OTHER -> {Ok(v)}

\* Python truthiness of a returned value (`if fn(item)`).
TruthyOnlyTrue(v) == v = Bool(TRUE)
Truthy(v) ==
  CASE "b" \in DOMAIN v -> v.b
    [] "i" \in DOMAIN v -> v.i # 0
    [] "l" \in DOMAIN v -> v.l # <<>>
    [] OTHER -> FALSE

\* ------------------------------------------------------------- operators
\* The closure a builder method creates: the method's name and the parameters
\* the closure captures.
\*   fn, aux  the captured callables (fn, key; on_error)
\*   n        the captured integer (size, max_size, retries, n)
\*   secs     the captured time (backoff; rate_limit's min_interval)
\*   excs     the captured exceptions tuple
Op(kind, fn, aux, n, bounded, secs, excs) ==
  [kind |-> kind, fn |-> fn, aux |-> aux, n |-> n, bounded |-> bounded,
   secs |-> secs, excs |-> excs]
MapOp(fn) == Op("map", fn, "", 0, FALSE, 0, {})
FlatMapOp(fn) == Op("flat_map", fn, "", 0, FALSE, 0, {})
FilterOp(fn) == Op("filter", fn, "", 0, FALSE, 0, {})
TapOp(fn) == Op("tap", fn, "", 0, FALSE, 0, {})
BatchOp(size) == Op("batch", "", "", size, FALSE, 0, {})
\* dedupe(key, max_size): key "" is key=None; bounded = FALSE is max_size=None.
DedupeOp(key, bounded, max_size) == Op("dedupe", key, "", max_size, bounded, 0, {})
RetryMapOp(fn, retries, backoff, excs) == Op("retry_map", fn, "", retries, FALSE, backoff, excs)
\* rate_limit(rate, per) captures min_interval = per / rate (clock ticks; the
\* chains use a per that is a multiple of rate, so the division is exact).
RateLimitOp(rate, per) == Op("rate_limit", "", "", 0, FALSE, per \div rate, {})
TakeOp(n) == Op("take", "", "", n, FALSE, 0, {})
CatchOp(fn, on_error, excs) == Op("catch", fn, on_error, 0, FALSE, 0, excs)

\* The local variables of one operator generator (one record shape for all
\* kinds; a kind uses the fields its closure has).
\*   pc        "new": not started; "looping": in its for loop; "yielded":
\*             suspended at the yield in its loop; "flushed": batch suspended
\*             at its final yield; "done": finished (returned or raised)
NewGen ==
  [pc |-> "new", buffer |-> <<>>, seen |-> <<>>, count |-> 0, item |-> None,
   attempt |-> 0, last_exc |-> NoExc, pending |-> <<>>, last_time |-> -1]

NewStats == [processed |-> 0, emitted |-> 0, dropped |-> 0, batches |-> 0,
             errors |-> 0, duration |-> 0]

Tok(k, at, v, e) == [k |-> k, at |-> at, v |-> v, exc |-> e]
Idle == Tok("idle", 0, None, NoExc)

\* ------------------------------------------------------------- state
VARIABLES
  source,   \* the builder's source: [items, fails] (fails: the iterable raises
            \* IOError instead of ending)
  lists,    \* the heap of operator lists: list id -> its contents
  pipes,    \* the builders made so far: [src, ops], the ids of the builder's
            \* source and of its operator list (Pipe._source, Pipe._ops)
  ops,      \* the operator list of the builder at hand: the one returned by
            \* the last builder call, or the one run was called on
  sink,     \* the sink passed to run ("" is sink=None)
  rpc,      \* "build", "running", "returned" (run returned stats), "raised"
  ctl,      \* the control token
  srcPos,   \* items the source iterator has produced
  gen,      \* stage -> the generator's local variables
  stats,    \* the run's RunStats
  result,   \* the exception that left run ("raised"), else NoExc
  now,      \* the clock (time.perf_counter)
  start,    \* run's start timestamp
  pulls,    \* history: stage -> number of next() calls made on it
  outs,     \* history: stage -> the values it yielded
  calls,    \* history: the user-function calls, in order
  sleeps,   \* history: the time.sleep durations, in order
  done      \* history: what each run that returned emitted, and its statistics

cfgVars == <<source, lists, pipes, ops, sink>>
runVars == <<rpc, ctl, srcPos, gen, stats, result, now, start>>
histVars == <<pulls, outs, calls, sleeps, done>>
vars == <<cfgVars, runVars, histVars>>

\* ------------------------------------------------------------- protocol
\* next(): the consumer of stage i asks it for its next value.
Pull(i) ==
  /\ ctl' = Tok("next", i, None, NoExc)
  /\ pulls' = [pulls EXCEPT ![i] = @ + 1]
  /\ outs' = outs

\* `yield v` in stage i.
Yield(i, v) ==
  /\ ctl' = Tok("yield", i, v, NoExc)
  /\ outs' = [outs EXCEPT ![i] = Append(@, v)]
  /\ pulls' = pulls

\* Stage i's generator returns.
Stop(i) ==
  /\ ctl' = Tok("stop", i, None, NoExc)
  /\ UNCHANGED <<pulls, outs>>

\* Exception e leaves stage i's generator.
Raise(i, e) ==
  /\ ctl' = Tok("raise", i, None, e)
  /\ UNCHANGED <<pulls, outs>>

\* The record of one call made by stage `at` (Len(ops) + 1 is run's loop):
\* fn(arg), on_error(arg, exc), sink(arg), or an operation of the interpreter
\* that raises (who = "python").  idx is the number of the input item the stage
\* is working on (the values its input has yielded so far).
CallRec(at, who, fn, arg, out) ==
  [at |-> at, who |-> who, fn |-> fn, arg |-> arg, exc |-> NoExc, out |-> out,
   idx |-> IF at >= 1 THEN Len(outs[at - 1]) ELSE 0]
OnErrorRec(at, fn, arg, e, out) ==
  [at |-> at, who |-> "on_error", fn |-> fn, arg |-> arg, exc |-> e, out |-> out,
   idx |-> Len(outs[at - 1])]

\* The exception a call with outcome `out` raises when it is the k-th call.
Raised(out, k) == Exc(out.typ, k)

\* The token is addressed to stage i: next() was called on it, or its input
\* (stage i - 1) answered.
Resumed(i) == ctl.k = "next" /\ ctl.at = i
Fed(i) == ctl.k = "yield" /\ ctl.at = i - 1
InputEnded(i) == ctl.k = "stop" /\ ctl.at = i - 1
InputRaised(i) == ctl.k = "raise" /\ ctl.at = i - 1
Running(i, kind) == rpc = "running" /\ i \in 1..Len(ops) /\ ops[i].kind = kind

SetGen(i, g) == gen' = [gen EXCEPT ![i] = g]
Finish(i) == SetGen(i, [gen[i] EXCEPT !.pc = "done"])

\* ------------------------------------------------------------- builder
Seqs(S, n) == UNION {[1..k -> S] : k \in 0..n}
Sources(n) == [items : Seqs(1..MaxItem, n), fails : BOOLEAN]

\* Pipe(source): a builder with no operators; nothing has run.
InitWith(srcs) ==
  /\ source \in srcs
  /\ lists = << <<>> >>
  /\ pipes = <<[src |-> 1, ops |-> 1]>>
  /\ ops = <<>>
  /\ sink = ""
  /\ rpc = "build"
  /\ ctl = Idle
  /\ srcPos = 0
  /\ gen = <<>>
  /\ stats = NewStats
  /\ result = NoExc
  /\ now = 0
  /\ start = 0
  /\ pulls = <<>>
  /\ outs = <<>>
  /\ calls = <<>>
  /\ sleeps = <<>>
  /\ done = <<>>

\* The operator list of builder b.
OpsOf(b) == lists[pipes[b].ops]

\* _add_op on builder b: Pipe(self._source, self._ops + [op]) is a new builder
\* with b's source and a new list, b's operators followed by op.
DeriveInPlace(b, op) ==
  /\ lists' = [lists EXCEPT ![pipes[b].ops] = @ \o <<op>>]
  /\ pipes' = Append(pipes, pipes[b])
Derive(b, op) ==
  /\ lists' = Append(lists, OpsOf(b) \o <<op>>)
  /\ pipes' = Append(pipes, [src |-> pipes[b].src, ops |-> Len(lists) + 1])

\* A builder method called on builder b: _add_op, and the new builder is the
\* one at hand.  Nothing else happens.
AddOpToEager(b, catalogue, maxOps) ==
  /\ rpc = "build"
  /\ Len(OpsOf(b)) < maxOps
  /\ \E op \in catalogue :
       /\ Derive(b, op)
       /\ calls' = IF op.fn = "" THEN calls
                   ELSE Append(calls, CallRec(0, "fn", op.fn, None, Err("TypeError")))
  /\ ops' = lists'[pipes'[Len(pipes')].ops]
  /\ UNCHANGED <<source, sink, runVars, pulls, outs, sleeps, done>>
AddOpTo(b, catalogue, maxOps) ==
  /\ rpc = "build"
  /\ Len(OpsOf(b)) < maxOps
  /\ \E op \in catalogue : Derive(b, op)
  /\ ops' = lists'[pipes'[Len(pipes')].ops]
  /\ UNCHANGED <<source, sink, runVars, histVars>>

\* A builder method called on the builder at hand (a chain of calls).
AddOpFrom(catalogue, maxOps) == AddOpTo(Len(pipes), catalogue, maxOps)

\* ------------------------------------------------------------- run
\* run(sink): a fresh RunStats, the start timestamp, the generators composed
\* over _source() in registration order, and the first next() of the for loop.
StartStatsKept(s) == s
StartStats(s) == NewStats
StartRun(chain, sinks) ==
  /\ \E s \in sinks : sink' = s
  /\ ops' = chain
  /\ rpc' = "running"
  /\ stats' = StartStats(stats)
  /\ start' = now
  /\ srcPos' = 0
  /\ gen' = [i \in 1..Len(chain) |-> NewGen]
  /\ ctl' = Tok("next", Len(chain), None, NoExc)
  /\ pulls' = [i \in 0..Len(chain) |-> IF i = Len(chain) THEN 1 ELSE 0]
  /\ outs' = [i \in 0..Len(chain) |-> <<>>]
  /\ UNCHANGED <<source, lists, pipes, result, now, calls, sleeps, done>>

\* run(sink) called on builder b, and on the builder at hand.
RunOn(b, sinks) == rpc = "build" /\ StartRun(OpsOf(b), sinks)
RunWith(sinks) == RunOn(Len(pipes), sinks)

\* stats.dropped += 1 in filter.op and dedupe.op.
DroppedUncounted(s) == s
Dropped(s) == [s EXCEPT !.dropped = @ + 1]

\* stats.processed += 1 in _source, stats.emitted += 1 in run's loop.
SourcePulledUncounted(s) == s
SourcePulled(s) == [s EXCEPT !.processed = @ + 1]
EmittedTwice(s) == [s EXCEPT !.emitted = @ + 2]
Emitted(s) == [s EXCEPT !.emitted = @ + 1]

\* _source(): the next item of the caller's iterable; processed counts it
\* before it is yielded.
SourceNext ==
  /\ rpc = "running"
  /\ Resumed(0)
  /\ IF srcPos < Len(source.items)
       THEN /\ srcPos' = srcPos + 1
            /\ stats' = SourcePulled(stats)
            /\ Yield(0, Item(source.items[srcPos + 1]))
            /\ calls' = calls
       ELSE /\ UNCHANGED <<srcPos, stats>>
            /\ IF source.fails
                 THEN /\ calls' = Append(calls, CallRec(0, "source", "", None, Err("IOError")))
                      /\ Raise(0, Exc("IOError", Len(calls) + 1))
                 ELSE /\ Stop(0)
                      /\ calls' = calls
  /\ UNCHANGED <<cfgVars, rpc, gen, result, now, start, sleeps, done>>

\* The body of run's for loop: emitted counts the item, then the sink gets it.
\* An exception of the sink leaves run.
RunItem ==
  /\ rpc = "running"
  /\ ctl.k = "yield" /\ ctl.at = Len(ops)
  /\ stats' = Emitted(stats)
  /\ IF sink = ""
       THEN /\ Pull(Len(ops))
            /\ UNCHANGED <<rpc, result, calls>>
       ELSE \E out \in Outcomes(sink, ctl.v) :
              /\ calls' = Append(calls, CallRec(Len(ops) + 1, "sink", sink, ctl.v, out))
              /\ IF out.ok
                   THEN Pull(Len(ops)) /\ UNCHANGED <<rpc, result>>
                   ELSE /\ rpc' = "raised"
                        /\ result' = Raised(out, Len(calls) + 1)
                        /\ ctl' = Idle
                        /\ UNCHANGED <<pulls, outs>>
  /\ UNCHANGED <<cfgVars, srcPos, gen, now, start, sleeps, done>>

\* The for loop ends: duration is set and the statistics are returned.
RunStop ==
  /\ rpc = "running"
  /\ ctl.k = "stop" /\ ctl.at = Len(ops)
  /\ stats' = [stats EXCEPT !.duration = now - start]
  /\ rpc' = "returned"
  /\ ctl' = Idle
  /\ done' = Append(done, [out |-> outs[Len(ops)], stats |-> stats'])
  /\ UNCHANGED <<cfgVars, srcPos, gen, result, now, start, pulls, outs, calls, sleeps>>

\* An exception reaches the for loop: it leaves run; no statistics are returned.
RunRaise ==
  /\ rpc = "running"
  /\ ctl.k = "raise" /\ ctl.at = Len(ops)
  /\ rpc' = "raised"
  /\ result' = ctl.exc
  /\ ctl' = Idle
  /\ UNCHANGED <<cfgVars, srcPos, gen, stats, now, start, histVars>>

\* ------------------------------------------------------------- stages
\* What no operator generator touches.
opFrame == <<cfgVars, rpc, srcPos, result, start, done>>

\* `for item in iterable` when the input is exhausted: the loop ends and, for
\* every operator but batch, the generator returns.
InputEnds(i) ==
  /\ InputEnded(i)
  /\ Stop(i)
  /\ Finish(i)

\* `for item in iterable` when the input raises: the for statement is inside
\* no try block of any operator, so the exception leaves the generator.
InputRaisesTrapped(i) ==
  /\ InputRaised(i)
  /\ IF ops[i].kind \in {"catch", "retry_map"} /\ Matches(ctl.exc, ops[i].excs)
       THEN Pull(i - 1) /\ gen' = gen
       ELSE Raise(i, ctl.exc) /\ Finish(i)
InputRaisesSwallowed(i) ==
  /\ InputRaised(i)
  /\ Stop(i)
  /\ Finish(i)
InputRaises(i) ==
  /\ InputRaised(i)
  /\ Raise(i, ctl.exc)
  /\ Finish(i)

\* map(fn).op: yield fn(item) for every item.
MapStep(i) ==
  /\ Running(i, "map")
  /\ \/ /\ Resumed(i)
        /\ Pull(i - 1)
        /\ UNCHANGED <<gen, calls>>
     \/ /\ Fed(i)
        /\ \E out \in Outcomes(ops[i].fn, ctl.v) :
             /\ calls' = Append(calls, CallRec(i, "fn", ops[i].fn, ctl.v, out))
             /\ IF out.ok
                  THEN Yield(i, out.val) /\ gen' = gen
                  ELSE Raise(i, Raised(out, Len(calls) + 1)) /\ Finish(i)
     \/ InputEnds(i) /\ calls' = calls
     \/ InputRaises(i) /\ calls' = calls
  /\ UNCHANGED <<opFrame, stats, now, sleeps>>

\* tap(fn).op: call fn(item) for its effect, then yield the item itself.
TapStep(i) ==
  /\ Running(i, "tap")
  /\ \/ /\ Resumed(i)
        /\ Pull(i - 1)
        /\ UNCHANGED <<gen, calls>>
     \/ /\ Fed(i)
        /\ \E out \in Outcomes(ops[i].fn, ctl.v) :
             /\ calls' = Append(calls, CallRec(i, "fn", ops[i].fn, ctl.v, out))
             /\ IF out.ok
                  THEN Yield(i, ctl.v) /\ gen' = gen
                  ELSE Raise(i, Raised(out, Len(calls) + 1)) /\ Finish(i)
     \/ InputEnds(i) /\ calls' = calls
     \/ InputRaises(i) /\ calls' = calls
  /\ UNCHANGED <<opFrame, stats, now, sleeps>>

\* take(n).op's test on the item the for statement has just fetched.
TakeBreaks(count, n) == count >= n

\* take(n).op: the for statement fetches the next item of the input first;
\* then `if count >= n: break`, else the item is yielded and, when the
\* generator is resumed, count += 1.
TakeStep(i) ==
  /\ Running(i, "take")
  /\ \/ /\ Resumed(i)
        /\ SetGen(i, [gen[i] EXCEPT !.count = IF gen[i].pc = "yielded" THEN @ + 1 ELSE @])
        /\ Pull(i - 1)
     \/ /\ Fed(i)
        /\ IF TakeBreaks(gen[i].count, ops[i].n)
             THEN Stop(i) /\ Finish(i)
             ELSE Yield(i, ctl.v) /\ SetGen(i, [gen[i] EXCEPT !.pc = "yielded"])
     \/ InputEnds(i)
     \/ InputRaises(i)
  /\ UNCHANGED <<opFrame, stats, now, sleeps, calls>>

\* filter(fn).op: yield the item when fn(item) is true, else count it dropped
\* and go on with the next item.
FilterStep(i) ==
  /\ Running(i, "filter")
  /\ \/ /\ Resumed(i)
        /\ Pull(i - 1)
        /\ UNCHANGED <<gen, calls, stats>>
     \/ /\ Fed(i)
        /\ \E out \in Outcomes(ops[i].fn, ctl.v) :
             /\ calls' = Append(calls, CallRec(i, "fn", ops[i].fn, ctl.v, out))
             /\ IF ~out.ok
                  THEN Raise(i, Raised(out, Len(calls) + 1)) /\ Finish(i) /\ stats' = stats
                  ELSE IF Truthy(out.val)
                         THEN Yield(i, ctl.v) /\ UNCHANGED <<gen, stats>>
                         ELSE /\ stats' = Dropped(stats)
                              /\ Pull(i - 1)
                              /\ gen' = gen
     \/ InputEnds(i) /\ UNCHANGED <<calls, stats>>
     \/ InputRaises(i) /\ UNCHANGED <<calls, stats>>
  /\ UNCHANGED <<opFrame, now, sleeps>>

\* flat_map(fn).op: `yield from fn(item)` yields the elements of fn(item) one
\* by one (pending holds those still to come); a value that is no iterable
\* raises TypeError.
FlatMapStep(i) ==
  /\ Running(i, "flat_map")
  /\ \/ /\ Resumed(i)
        /\ IF gen[i].pending # <<>>
             THEN /\ Yield(i, Head(gen[i].pending))
                  /\ SetGen(i, [gen[i] EXCEPT !.pending = Tail(@)])
             ELSE Pull(i - 1) /\ gen' = gen
        /\ calls' = calls
     \/ /\ Fed(i)
        /\ \E out \in Outcomes(ops[i].fn, ctl.v) :
             /\ calls' = Append(calls, CallRec(i, "fn", ops[i].fn, ctl.v, out))
             /\ IF ~out.ok
                  THEN Raise(i, Raised(out, Len(calls) + 1)) /\ Finish(i)
                  ELSE IF ~IsList(out.val)
                         THEN Raise(i, Exc("TypeError", Len(calls) + 1)) /\ Finish(i)
                         ELSE IF out.val.l = <<>>
                                THEN Pull(i - 1) /\ gen' = gen
                                ELSE /\ Yield(i, Head(out.val.l))
                                     /\ SetGen(i, [gen[i] EXCEPT !.pending = Tail(out.val.l)])
     \/ InputEnds(i) /\ calls' = calls
     \/ InputRaises(i) /\ calls' = calls
  /\ UNCHANGED <<opFrame, stats, now, sleeps>>

\* batch(size).op's test after the append.
BatchFullLate(buffer, size) == Len(buffer) = size + 1
BatchFull(buffer, size) == Len(buffer) = size

\* batch(size).op: append the item; a full buffer is counted and yielded, and
\* replaced by a new list when the generator is resumed.  When the input ends,
\* a non-empty buffer is counted and yielded, and then the generator returns.
BatchStep(i) ==
  /\ Running(i, "batch")
  /\ \/ /\ Resumed(i)
        /\ IF gen[i].pc = "flushed"
             THEN Stop(i) /\ Finish(i)
             ELSE /\ SetGen(i, [gen[i] EXCEPT !.buffer = IF gen[i].pc = "yielded" THEN <<>> ELSE @,
                                              !.pc = "looping"])
                  /\ Pull(i - 1)
        /\ stats' = stats
     \/ /\ Fed(i)
        /\ LET buffer == Append(gen[i].buffer, ctl.v) IN
             IF BatchFull(buffer, ops[i].n)
               THEN /\ stats' = [stats EXCEPT !.batches = @ + 1]
                    /\ Yield(i, List(buffer))
                    /\ SetGen(i, [gen[i] EXCEPT !.buffer = buffer, !.pc = "yielded"])
               ELSE /\ SetGen(i, [gen[i] EXCEPT !.buffer = buffer])
                    /\ Pull(i - 1)
                    /\ stats' = stats
     \/ /\ InputEnded(i)
        /\ IF gen[i].buffer # <<>>
             THEN /\ stats' = [stats EXCEPT !.batches = @ + 1]
                  /\ Yield(i, List(gen[i].buffer))
                  /\ SetGen(i, [gen[i] EXCEPT !.pc = "flushed"])
             ELSE Stop(i) /\ Finish(i) /\ stats' = stats
     \/ InputRaises(i) /\ stats' = stats
  /\ UNCHANGED <<opFrame, calls, now, sleeps>>

\* dedupe.op's seen, an OrderedDict, as the sequence of its keys in insertion
\* order.  `key_value not in seen`:
DedupeSeenLast(seen, key_value) == seen # <<>> /\ seen[Len(seen)] = key_value
DedupeSeen(seen, key_value) == \E k \in 1..Len(seen) : seen[k] = key_value

\* seen[key_value] = None, then popitem(last=False) when max_size is set and
\* len(seen) > max_size: the new key goes last, the first key is removed.
DedupeInsertPopLast(seen, key_value, bounded, max_size) ==
  LET inserted == Append(seen, key_value) IN
    IF bounded /\ Len(inserted) > max_size
      THEN SubSeq(inserted, 1, Len(inserted) - 1)
      ELSE inserted
DedupeInsert(seen, key_value, bounded, max_size) ==
  LET inserted == Append(seen, key_value) IN
    IF bounded /\ Len(inserted) > max_size THEN Tail(inserted) ELSE inserted

\* The rest of dedupe.op's loop body once key_value is known: a list is not
\* hashable (TypeError); a new key is inserted and the item yielded; a seen
\* key counts the item dropped and the loop goes on.
DedupeItem(i, key_value, k) ==
  IF IsList(key_value)
    THEN Raise(i, Exc("TypeError", k)) /\ Finish(i) /\ stats' = stats
    ELSE IF ~DedupeSeen(gen[i].seen, key_value)
           THEN /\ SetGen(i, [gen[i] EXCEPT
                       !.seen = DedupeInsert(@, key_value, ops[i].bounded, ops[i].n)])
                /\ Yield(i, ctl.v)
                /\ stats' = stats
           ELSE /\ stats' = Dropped(stats)
                /\ Pull(i - 1)
                /\ gen' = gen

\* dedupe(key, max_size).op.
DedupeStep(i) ==
  /\ Running(i, "dedupe")
  /\ \/ /\ Resumed(i)
        /\ Pull(i - 1)
        /\ UNCHANGED <<gen, calls, stats>>
     \/ /\ Fed(i)
        /\ IF ops[i].fn = ""
             THEN DedupeItem(i, ctl.v, Len(calls) + 1) /\ calls' = calls
             ELSE \E out \in Outcomes(ops[i].fn, ctl.v) :
                    /\ calls' = Append(calls, CallRec(i, "key", ops[i].fn, ctl.v, out))
                    /\ IF out.ok
                         THEN DedupeItem(i, out.val, Len(calls) + 1)
                         ELSE Raise(i, Raised(out, Len(calls) + 1)) /\ Finish(i) /\ stats' = stats
     \/ InputEnds(i) /\ UNCHANGED <<calls, stats>>
     \/ InputRaises(i) /\ UNCHANGED <<calls, stats>>
  /\ UNCHANGED <<opFrame, now, sleeps>>

\* stats.errors += 1 in the except clauses of retry_map.op and catch.op.
TrappedUncounted(s) == s
Trapped(s) == [s EXCEPT !.errors = @ + 1]

\* 2 ** attempt.
RECURSIVE Pow2(_)
Pow2(k) == IF k <= 0 THEN 1 ELSE 2 * Pow2(k - 1)

\* retry_map.op: `if attempt < retries and backoff > 0` (sleep before the next
\* attempt), and whether range(retries + 1) holds another attempt.
RetrySleeps(attempt, retries, backoff) == attempt < retries /\ backoff > 0
RetryHasNextOffByOne(attempt, retries) == attempt < retries + 1
RetryHasNext(attempt, retries) == attempt + 1 < retries + 1

\* What the except clause keeps in last_exc.
RetryFirstExc(last_exc, e) == IF last_exc = NoExc THEN e ELSE last_exc
RetryLastExc(last_exc, e) == e

\* retry_map(fn, retries, backoff, exceptions).op.  For an item of the input,
\* attempt runs over range(retries + 1); token "try" is the head of that loop.
\* A returned value is yielded and ends the loop (break); a matching exception
\* is kept in last_exc and counted, then the backoff sleep, then the next
\* attempt; when the range is used up, the for's else clause raises last_exc
\* (`raise None` is a TypeError).  Any other exception leaves the generator.
RetryMapStep(i) ==
  /\ Running(i, "retry_map")
  /\ \/ /\ Resumed(i)
        /\ Pull(i - 1)
        /\ UNCHANGED <<gen, calls, stats, now, sleeps>>
     \/ /\ Fed(i)
        /\ IF ops[i].n + 1 > 0
             THEN /\ SetGen(i, [gen[i] EXCEPT !.item = ctl.v, !.attempt = 0, !.last_exc = NoExc])
                  /\ ctl' = Tok("try", i, None, NoExc)
                  /\ UNCHANGED <<pulls, outs>>
             ELSE Raise(i, Exc("TypeError", Len(calls) + 1)) /\ Finish(i)
        /\ UNCHANGED <<calls, stats, now, sleeps>>
     \/ /\ ctl.k = "try" /\ ctl.at = i
        /\ \E out \in Outcomes(ops[i].fn, gen[i].item) :
             LET e == Raised(out, Len(calls) + 1)
                 attempt == gen[i].attempt
                 last_exc == RetryLastExc(gen[i].last_exc, e)
                 delay == ops[i].secs * Pow2(attempt)
             IN
             /\ calls' = Append(calls, CallRec(i, "fn", ops[i].fn, gen[i].item, out))
             /\ IF out.ok
                  THEN /\ Yield(i, out.val)
                       /\ UNCHANGED <<gen, stats, now, sleeps>>
                  ELSE IF ~Matches(e, ops[i].excs)
                         THEN /\ Raise(i, e)
                              /\ Finish(i)
                              /\ UNCHANGED <<stats, now, sleeps>>
                         ELSE /\ stats' = Trapped(stats)
                              /\ IF RetrySleeps(attempt, ops[i].n, ops[i].secs)
                                   THEN sleeps' = Append(sleeps, delay) /\ now' = now + delay
                                   ELSE UNCHANGED <<sleeps, now>>
                              /\ IF RetryHasNext(attempt, ops[i].n)
                                   THEN /\ SetGen(i, [gen[i] EXCEPT !.attempt = attempt + 1,
                                                                    !.last_exc = last_exc])
                                        /\ UNCHANGED <<ctl, pulls, outs>>
                                   ELSE /\ Raise(i, last_exc)
                                        /\ SetGen(i, [gen[i] EXCEPT !.last_exc = last_exc,
                                                                    !.pc = "done"])
     \/ InputEnds(i) /\ UNCHANGED <<calls, stats, now, sleeps>>
     \/ InputRaises(i) /\ UNCHANGED <<calls, stats, now, sleeps>>
  /\ UNCHANGED opFrame

\* catch(fn, on_error, exceptions).op: yield fn(item); on a matching exception
\* call on_error(item, e), then count the error, and go on with the next item.
\* An exception that does not match, and one raised by on_error, leave the
\* generator.
CatchStep(i) ==
  /\ Running(i, "catch")
  /\ \/ /\ Resumed(i)
        /\ Pull(i - 1)
        /\ UNCHANGED <<gen, calls, stats>>
     \/ /\ Fed(i)
        /\ \E out \in Outcomes(ops[i].fn, ctl.v) :
             LET e == Raised(out, Len(calls) + 1)
                 called == Append(calls, CallRec(i, "fn", ops[i].fn, ctl.v, out))
             IN
             IF out.ok
               THEN /\ calls' = called
                    /\ Yield(i, out.val)
                    /\ UNCHANGED <<gen, stats>>
               ELSE IF ~Matches(e, ops[i].excs)
                      THEN /\ calls' = called
                           /\ Raise(i, e)
                           /\ Finish(i)
                           /\ stats' = stats
                      ELSE \E handled \in Outcomes(ops[i].aux, ctl.v) :
                             /\ calls' = Append(called, OnErrorRec(i, ops[i].aux, ctl.v, e, handled))
                             /\ IF handled.ok
                                  THEN /\ stats' = Trapped(stats)
                                       /\ Pull(i - 1)
                                       /\ gen' = gen
                                  ELSE /\ Raise(i, Raised(handled, Len(called) + 1))
                                       /\ Finish(i)
                                       /\ stats' = stats
     \/ InputEnds(i) /\ UNCHANGED <<calls, stats>>
     \/ InputRaises(i) /\ UNCHANGED <<calls, stats>>
  /\ UNCHANGED <<opFrame, now, sleeps>>

\* rate_limit.op's wait before an item: none for the first item (last_time is
\* None, here -1), else what is missing of min_interval since last_time.
RateWaitNever(last_time, t, min_interval) == 0
RateWait(last_time, t, min_interval) ==
  IF last_time # -1 /\ t - last_time < min_interval
    THEN min_interval - (t - last_time)
    ELSE 0

\* rate_limit(rate, per).op: for every item after the first, read the clock and
\* sleep for what is missing of min_interval; then read the clock into
\* last_time and yield the item.  Between two clock events up to MaxDrift
\* ticks pass (d1 before the first read, d2 before the second).
RateLimitStep(i) ==
  /\ Running(i, "rate_limit")
  /\ \/ /\ Resumed(i)
        /\ Pull(i - 1)
        /\ UNCHANGED <<gen, now, sleeps>>
     \/ /\ Fed(i)
        /\ \E d1 \in 0..MaxDrift, d2 \in 0..MaxDrift :
             LET t1 == now + d1
                 wait == RateWait(gen[i].last_time, t1, ops[i].secs)
                 t2 == t1 + wait + d2
             IN
             /\ gen[i].last_time = -1 => d1 = 0
             /\ sleeps' = IF wait > 0 THEN Append(sleeps, wait) ELSE sleeps
             /\ now' = t2
             /\ SetGen(i, [gen[i] EXCEPT !.last_time = t2])
             /\ Yield(i, ctl.v)
     \/ InputEnds(i) /\ UNCHANGED <<now, sleeps>>
     \/ InputRaises(i) /\ UNCHANGED <<now, sleeps>>
  /\ UNCHANGED <<opFrame, calls, stats>>

\* ------------------------------------------------------------- all chains
\* Every chain of at most MaxOps operators of the catalogue, over every source
\* of at most MaxSrc items, run with no sink or with a sink that raises on 2.
Catalogue ==
  {MapOp("inc"), MapOp("fail2"), FlatMapOp("dup"), FlatMapOp("skip2"),
   FilterOp("even"), TapOp("note"), BatchOp(2), RateLimitOp(1, 2),
   DedupeOp("", FALSE, 0), DedupeOp("parity", TRUE, 1),
   RetryMapOp("flaky", 1, 1, {"ValueError"}),
   TakeOp(1),
   CatchOp("fail2", "note", {"ValueError"}), CatchOp("fail2", "boom", {"Exception"}),
   CatchOp("fail2", "note", {"TypeError"})}
Init == InitWith(Sources(MaxSrc))
AddOp == AddOpFrom(Catalogue, MaxOps)
Run == RunWith({"", "fail2"})
Next ==
  \/ AddOp
  \/ Run
  \/ SourceNext
  \/ \E i \in 1..Len(ops) : MapStep(i)
  \/ \E i \in 1..Len(ops) : FlatMapStep(i)
  \/ \E i \in 1..Len(ops) : FilterStep(i)
  \/ \E i \in 1..Len(ops) : TapStep(i)
  \/ \E i \in 1..Len(ops) : BatchStep(i)
  \/ \E i \in 1..Len(ops) : RateLimitStep(i)
  \/ \E i \in 1..Len(ops) : DedupeStep(i)
  \/ \E i \in 1..Len(ops) : RetryMapStep(i)
  \/ \E i \in 1..Len(ops) : TakeStep(i)
  \/ \E i \in 1..Len(ops) : CatchStep(i)
  \/ RunItem
  \/ RunStop
  \/ RunRaise
Spec == Init /\ [][Next]_vars

\* ------------------------------------------------------------- take chains
\* Chains of 1:1 stages (map, tap) ending in take(n), over every source of at
\* most MaxSrc + 1 items, with n up to MaxParam.
OneToOneOps == {MapOp("inc"), TapOp("note"), TapOp("fail2")}
TakeOps == {TakeOp(n) : n \in 0..MaxParam}
InitTake == InitWith(Sources(MaxSrc + 1))
AddOneToOne ==
  /\ \A j \in 1..Len(ops) : ops[j].kind # "take"
  /\ AddOpFrom(OneToOneOps, MaxOps)
AddTake ==
  /\ \A j \in 1..Len(ops) : ops[j].kind # "take"
  /\ AddOpFrom(TakeOps, MaxOps + 1)
RunTake == RunWith({""})
NextTake ==
  \/ AddOneToOne
  \/ AddTake
  \/ RunTake
  \/ SourceNext
  \/ \E i \in 1..Len(ops) : MapStep(i)
  \/ \E i \in 1..Len(ops) : TapStep(i)
  \/ \E i \in 1..Len(ops) : TakeStep(i)
  \/ RunItem
  \/ RunStop
  \/ RunRaise
SpecTake == InitTake /\ [][NextTake]_vars

\* ------------------------------------------------------------- batch chains
\* One batch operator with size -1..MaxParam + 1, over every source of at most
\* MaxSrc + 2 items, run with no sink or with a sink that raises on 2.
BatchOps == {BatchOp(size) : size \in -1..(MaxParam + 1)}
InitBatch == InitWith(Sources(MaxSrc + 2))
AddBatch == AddOpFrom(BatchOps, 1)
RunBatch == RunWith({"", "fail2"})
NextBatch ==
  \/ AddBatch
  \/ RunBatch
  \/ SourceNext
  \/ \E i \in 1..Len(ops) : BatchStep(i)
  \/ RunItem
  \/ RunStop
  \/ RunRaise
SpecBatch == InitBatch /\ [][NextBatch]_vars

\* ------------------------------------------------------------- retry chains
\* One retry_map of a stateful function (any attempt may return, raise
\* ValueError or raise TypeError) with retries 0..MaxParam, backoff 0 or 1 and
\* exceptions (ValueError,) or (Exception,), over every source of at most
\* MaxSrc - 1 items, run with no sink.
RetryOps ==
  {RetryMapOp("flaky", retries, backoff, excs) :
     retries \in 0..MaxParam, backoff \in {0, 1},
     excs \in {{"ValueError"}, {"Exception"}}}
HasKind(kind) == \E j \in 1..Len(ops) : ops[j].kind = kind
InitRetry == InitWith(Sources(MaxSrc - 1))
AddRetry == AddOpFrom(RetryOps, 1)
RunRetry == RunWith({""})
NextRetry ==
  \/ AddRetry
  \/ RunRetry
  \/ SourceNext
  \/ \E i \in 1..Len(ops) : RetryMapStep(i)
  \/ RunItem
  \/ RunStop
  \/ RunRaise
SpecRetry == InitRetry /\ [][NextRetry]_vars

\* ------------------------------------------------------------- catch chains
\* One catch whose fn fails on 2 or is stateful, whose on_error records or
\* raises, with exceptions (ValueError,), (TypeError,) or (Exception,), alone
\* or beside a recording tap.
CatchOps ==
  {CatchOp(fn, on_error, excs) :
     fn \in {"fail2", "flaky"}, on_error \in {"note", "boom"},
     excs \in {{"ValueError"}, {"TypeError"}, {"Exception"}}}
InitCatch == InitWith(Sources(MaxSrc))
AddCatch == ~HasKind("catch") /\ AddOpFrom(CatchOps, MaxOps)
AddCatchTap == ~HasKind("tap") /\ AddOpFrom({TapOp("note")}, MaxOps)
RunCatch == RunWith({"", "note"})
NextCatch ==
  \/ AddCatch
  \/ AddCatchTap
  \/ RunCatch
  \/ SourceNext
  \/ \E i \in 1..Len(ops) : CatchStep(i)
  \/ \E i \in 1..Len(ops) : TapStep(i)
  \/ RunItem
  \/ RunStop
  \/ RunRaise
SpecCatch == InitCatch /\ [][NextCatch]_vars

\* ------------------------------------------------------------- dedupe chains
\* One dedupe, by the item or by its parity, unbounded or with max_size
\* 1..MaxParam + 1, over every source of at most MaxSrc + 2 items drawn from
\* MaxItem + 1 values.
DedupeOps ==
  {DedupeOp(key, bounded, max_size) :
     key \in {"", "parity"}, bounded \in BOOLEAN, max_size \in 1..(MaxParam + 1)}
DedupeSources ==
  [items : Seqs(1..(MaxItem + 1), MaxSrc + 2), fails : BOOLEAN]
InitDedupe == InitWith(DedupeSources)
AddDedupe == AddOpFrom(DedupeOps, 1)
RunDedupe == RunWith({""})
NextDedupe ==
  \/ AddDedupe
  \/ RunDedupe
  \/ SourceNext
  \/ \E i \in 1..Len(ops) : DedupeStep(i)
  \/ RunItem
  \/ RunStop
  \/ RunRaise
SpecDedupe == InitDedupe /\ [][NextDedupe]_vars

\* ------------------------------------------------------------- endless sources
\* take(n), alone or after filter(even), over a source that is either finite
\* (and may raise at its end) or endless: a live stream that never signals
\* its end, so that next() on it, once its items so far are consumed, waits
\* for an item that does not come.  The program is one thread that keeps
\* running while it can, hence the weak fairness of the next-state action.
LiveSources ==
  {s \in [items : Seqs(1..MaxItem, MaxSrc), fails : BOOLEAN, endless : BOOLEAN] :
     s.endless => ~s.fails}

\* _source() over an endless iterable: the next item when there is one; else
\* the thread stays in next(), and nothing happens.
SourceWait ==
  /\ rpc = "running"
  /\ Resumed(0)
  /\ srcPos < Len(source.items)
  /\ srcPos' = srcPos + 1
  /\ stats' = SourcePulled(stats)
  /\ Yield(0, Item(source.items[srcPos + 1]))
  /\ UNCHANGED <<cfgVars, rpc, gen, result, now, start, sleeps, calls, done>>

InitLive == InitWith(LiveSources)
AddLiveFilter ==
  /\ ops = <<>>
  /\ AddOpFrom({FilterOp("even")}, 1)
AddLiveTake ==
  /\ \A j \in 1..Len(ops) : ops[j].kind # "take"
  /\ AddOpFrom(TakeOps, 2)
RunLive ==
  /\ HasKind("take")
  /\ RunWith({""})
SourceNextLive == IF source.endless THEN SourceWait ELSE SourceNext
NextLive ==
  \/ AddLiveFilter
  \/ AddLiveTake
  \/ RunLive
  \/ SourceNextLive
  \/ \E i \in 1..Len(ops) : FilterStep(i)
  \/ \E i \in 1..Len(ops) : TakeStep(i)
  \/ RunItem
  \/ RunStop
  \/ RunRaise
SpecLive == InitLive /\ [][NextLive]_vars /\ WF_vars(NextLive)


\* ------------------------------------------------------------- builder trees
\* Up to MaxPipes builders, each made by map(inc) or filter(even) called on
\* any builder made before (so that builders share parents), and run called
\* on any one of them.
MaxPipes == 4
BuildOps == {MapOp("inc"), FilterOp("even")}
InitBuild == InitWith(Sources(MaxSrc - 1))
AddOpAny ==
  /\ Len(pipes) < MaxPipes
  /\ \E b \in 1..Len(pipes) : AddOpTo(b, BuildOps, MaxOps)
RunAny == \E b \in 1..Len(pipes) : RunOn(b, {""})
NextBuild ==
  \/ AddOpAny
  \/ RunAny
  \/ SourceNext
  \/ \E i \in 1..Len(ops) : MapStep(i)
  \/ \E i \in 1..Len(ops) : FilterStep(i)
  \/ RunItem
  \/ RunStop
  \/ RunRaise
SpecBuild == InitBuild /\ [][NextBuild]_vars


\* ------------------------------------------------------------- repeated runs
\* Chains of deterministic operators, among them every operator that keeps
\* state in its generator, run MaxRuns times on the same builder over a
\* re-iterable source (a list: every run iterates it from its first item).
MaxRuns == 2
TwiceOps ==
  {MapOp("inc"), FilterOp("even"), BatchOp(2), RateLimitOp(1, 1),
   DedupeOp("", FALSE, 0), DedupeOp("parity", TRUE, 1), TakeOp(1),
   CatchOp("fail2", "note", {"ValueError"})}
InitTwice == InitWith(Sources(MaxSrc))
AddTwice == AddOpFrom(TwiceOps, MaxOps)
RunTwice == RunWith({"", "note"})

\* run called again, with the same sink, on the builder whose run returned.
RunAgain ==
  /\ rpc = "returned"
  /\ Len(done) < MaxRuns
  /\ StartRun(ops, {sink})
NextTwice ==
  \/ AddTwice
  \/ RunTwice
  \/ RunAgain
  \/ SourceNext
  \/ \E i \in 1..Len(ops) : MapStep(i)
  \/ \E i \in 1..Len(ops) : FilterStep(i)
  \/ \E i \in 1..Len(ops) : BatchStep(i)
  \/ \E i \in 1..Len(ops) : RateLimitStep(i)
  \/ \E i \in 1..Len(ops) : DedupeStep(i)
  \/ \E i \in 1..Len(ops) : TakeStep(i)
  \/ \E i \in 1..Len(ops) : CatchStep(i)
  \/ RunItem
  \/ RunStop
  \/ RunRaise
SpecTwice == InitTwice /\ [][NextTwice]_vars


\* ------------------------------------------------------------- filter chains
\* One or two filters over every source of at most MaxSrc + 1 items.  The
\* predicates return a bool (even), an int (parity), None (note), or the item
\* unless they raise (fail2).
FilterOps == {FilterOp(fn) : fn \in {"even", "parity", "note", "fail2"}}
InitFilter == InitWith(Sources(MaxSrc + 1))
AddFilter == AddOpFrom(FilterOps, MaxOps)
RunFilter == RunWith({"", "note"})
NextFilter ==
  \/ AddFilter
  \/ RunFilter
  \/ SourceNext
  \/ \E i \in 1..Len(ops) : FilterStep(i)
  \/ RunItem
  \/ RunStop
  \/ RunRaise
SpecFilter == InitFilter /\ [][NextFilter]_vars


\* ------------------------------------------------------------- rate-limited chains
\* One rate_limit whose min_interval is 1, 2 or 3 ticks of the clock, over
\* every source of at most MaxSrc items.
RateOps == {RateLimitOp(1, 1), RateLimitOp(1, 2), RateLimitOp(2, 2), RateLimitOp(1, 3)}
InitRate == InitWith(Sources(MaxSrc))
AddRate == AddOpFrom(RateOps, 1)
RunRate == RunWith({"", "fail2"})
NextRate ==
  \/ AddRate
  \/ RunRate
  \/ SourceNext
  \/ \E i \in 1..Len(ops) : RateLimitStep(i)
  \/ RunItem
  \/ RunStop
  \/ RunRaise
SpecRate == InitRate /\ [][NextRate]_vars


\* ------------------------------------------------------------- streaming chains
\* Chains of at most MaxOps + 1 operators among map, tap, filter and dedupe,
\* over every source of at most MaxSrc items, with or without a sink.
StreamOps ==
  {MapOp("inc"), MapOp("fail2"), TapOp("note"), FilterOp("even"),
   DedupeOp("", FALSE, 0), DedupeOp("parity", TRUE, 1)}
InitStream == InitWith(Sources(MaxSrc))
AddStream == AddOpFrom(StreamOps, MaxOps + 1)
RunStream == RunWith({"", "note"})
NextStream ==
  \/ AddStream
  \/ RunStream
  \/ SourceNext
  \/ \E i \in 1..Len(ops) : MapStep(i)
  \/ \E i \in 1..Len(ops) : TapStep(i)
  \/ \E i \in 1..Len(ops) : FilterStep(i)
  \/ \E i \in 1..Len(ops) : DedupeStep(i)
  \/ RunItem
  \/ RunStop
  \/ RunRaise
SpecStream == InitStream /\ [][NextStream]_vars


\* ------------------------------------------------------------- guarded chains
\* A catch or a retry_map whose exceptions tuple names the exceptions that
\* arise around it, alone or after a map or a tap that raises ValueError on 2,
\* over every source of at most MaxSrc items, ending or raising IOError.
GuardOps ==
  {CatchOp(fn, on_error, excs) :
     fn \in {"inc", "fail2"}, on_error \in {"note", "boom"},
     excs \in {{"Exception"}, {"ValueError", "IOError", "RuntimeError"}}}
  \cup {RetryMapOp(fn, 1, 0, excs) :
          fn \in {"inc", "fail2"},
          excs \in {{"Exception"}, {"ValueError", "IOError", "RuntimeError"}}}
InitGuard == InitWith(Sources(MaxSrc))
AddUpstream ==
  /\ ops = <<>>
  /\ AddOpFrom({MapOp("fail2"), TapOp("fail2")}, 1)
AddGuard ==
  /\ ~HasKind("catch") /\ ~HasKind("retry_map")
  /\ AddOpFrom(GuardOps, 2)
RunGuard == RunWith({""})
NextGuard ==
  \/ AddUpstream
  \/ AddGuard
  \/ RunGuard
  \/ SourceNext
  \/ \E i \in 1..Len(ops) : MapStep(i)
  \/ \E i \in 1..Len(ops) : TapStep(i)
  \/ \E i \in 1..Len(ops) : RetryMapStep(i)
  \/ \E i \in 1..Len(ops) : CatchStep(i)
  \/ RunItem
  \/ RunStop
  \/ RunRaise
SpecGuard == InitGuard /\ [][NextGuard]_vars

\* ------------------------------------------------------------- claims
\* Helpers of the claims' formulas.
Returned == rpc = "returned"
Last == Len(ops)
\* The calls stage j made of its own function, in order.
CallsOf(j, who) == SelectSeq(calls, LAMBDA c : c.at = j /\ c.who = who)
KindsBefore(j, kinds) == \A h \in 1..(j - 1) : ops[h].kind \in kinds

\* C1: in a chain of 1:1 stages (map, tap) ending in take(n), over a source of
\* more than n items, a completed run has pulled the source exactly n times
\* (processed = n) and has called every upstream function exactly n times;
\* with n = 0 the source is not pulled at all.
C1_TakePullsSourceNTimes ==
  (/\ Returned
   /\ Last >= 1
   /\ ops[Last].kind = "take"
   /\ KindsBefore(Last, {"map", "tap"})
   /\ Len(source.items) > ops[Last].n)
  => /\ pulls[0] = ops[Last].n
     /\ stats.processed = ops[Last].n
     /\ \A j \in 1..(Last - 1) : Len(CallsOf(j, "fn")) = ops[Last].n

\* C2 (as claimed): in every state of every run of every chain, emitted <=
\* processed.
C2_EmittedLeProcessed == stats.emitted <= stats.processed

\* C2 (amended): in every state of every run of a chain with no flat_map,
\* emitted <= processed.
C2_EmittedLeProcessedWithoutFlatMap ==
  ~HasKind("flat_map") => stats.emitted <= stats.processed

C2_Witness ==
  /\ Returned
  /\ ~HasKind("flat_map")
  /\ HasKind("batch")
  /\ stats.processed = 3
  /\ stats.emitted = 2

\* C3: a batch with size <= 0 is rejected: no run of a chain that holds one
\* returns, and none of them gets a group out of that batch.
C3_NonPositiveBatchRejected ==
  \A j \in 1..Len(ops) :
    (ops[j].kind = "batch" /\ ops[j].n <= 0)
    => /\ rpc # "returned"
       /\ rpc # "build" => outs[j] = <<>>

\* The attempts retry_map stage j made on its m-th input item, and whether a
\* call failed with an exception the stage's exceptions tuple matches.
Attempts(j, m) ==
  SelectSeq(calls, LAMBDA c : c.at = j /\ c.who = "fn" /\ c.idx = m)
Declared(typ, excs) == typ \in excs \/ "Exception" \in excs
FailedMatching(c, j) == ~c.out.ok /\ Declared(c.out.typ, ops[j].excs)
Results(cs) == [k \in 1..Len(cs) |-> cs[k].out.val]
Count(cs, P(_)) == Len(SelectSeq(cs, P))

\* C4: retry_map(fn, retries = r) attempts fn at most r + 1 times on each item,
\* always on that item, and goes on to another attempt only after a matching
\* failure; every earlier item ended in a success; the outputs are the
\* results of the successful attempts, one per item, in order; and errors is
\* the number of failed attempts.
C4_RetrySucceedsWithinBudget ==
  \A j \in 1..Len(ops) :
    (ops[j].kind = "retry_map" /\ rpc # "build") =>
      /\ \A m \in 1..Len(outs[j - 1]) :
           LET a == Attempts(j, m) IN
             /\ Len(a) <= ops[j].n + 1
             /\ \A k \in 1..Len(a) : a[k].arg = outs[j - 1][m]
             /\ \A k \in 1..(Len(a) - 1) : FailedMatching(a[k], j)
             /\ m < Len(outs[j - 1]) => (Len(a) >= 1 /\ a[Len(a)].out.ok)
      /\ outs[j] = Results(SelectSeq(CallsOf(j, "fn"), LAMBDA c : c.out.ok))
      /\ stats.errors = Count(CallsOf(j, "fn"), LAMBDA c : FailedMatching(c, j))

\* Two items, each of which fails r = 2 times and then succeeds.
C4_Witness ==
  /\ Returned
  /\ Len(ops) = 1
  /\ ops[1].kind = "retry_map"
  /\ ops[1].n = 2
  /\ Len(outs[1]) = 2
  /\ stats.errors = 4

\* The exception that is leaving, or has left, the run.
Escaping == ctl.k = "raise" \/ rpc = "raised"
Escaped == IF rpc = "raised" THEN result ELSE ctl.exc

\* retry_map stage j has used all r + 1 attempts on its m-th item, each failing
\* with a matching exception.
Exhausted(j, m) ==
  LET a == Attempts(j, m) IN
    /\ Len(a) = ops[j].n + 1
    /\ \A k \in 1..Len(a) : FailedMatching(a[k], j)

\* C5: when fn has failed with a matching exception on all r + 1 attempts on
\* an item, the exception of the last attempt is the one that leaves run, no
\* call is made after that attempt, the item has no output and the input is
\* not pulled again; and a matching exception of fn leaves the stage only
\* then (after exactly r + 1 attempts).
C5_RetryExhaustedRaisesLast ==
  \A j \in 1..Len(ops) :
    (ops[j].kind = "retry_map" /\ rpc # "build") =>
      /\ \A m \in 1..Len(outs[j - 1]) :
           Exhausted(j, m) =>
             /\ Escaping
             /\ Escaped = Exc(calls[Len(calls)].out.typ, Len(calls))
             /\ calls[Len(calls)].at = j /\ calls[Len(calls)].idx = m
             /\ m = Len(outs[j - 1])
             /\ pulls[j - 1] = m
             /\ pulls[0] = stats.processed
             /\ Len(outs[j]) = m - 1
      /\ (/\ Escaping
          /\ Escaped.id \in 1..Len(calls)
          /\ calls[Escaped.id].at = j
          /\ Declared(Escaped.typ, ops[j].excs))
         => Exhausted(j, calls[Escaped.id].idx)

\* The second item uses up r + 1 = 3 attempts after the first succeeded.
C5_Witness ==
  /\ rpc = "raised"
  /\ Len(ops) = 1
  /\ ops[1].kind = "retry_map"
  /\ ops[1].n = 2
  /\ Exhausted(1, 2)
  /\ Len(outs[1]) = 1

\* What catch stage j has done with its input so far: (1) each item got at
\* most one call of fn, each earlier item exactly one; (2) the outputs are the
\* results of the calls that returned, in order; (3) every matching failure is
\* followed at once by on_error(item, exception) with that item and that
\* exception, and on_error is called for nothing else.
CatchHandles(j) ==
  /\ \A m \in 1..Len(outs[j - 1]) :
       /\ Len(Attempts(j, m)) <= 1
       /\ m < Len(outs[j - 1]) => Len(Attempts(j, m)) = 1
  /\ outs[j] = Results(SelectSeq(CallsOf(j, "fn"), LAMBDA c : c.out.ok))
  /\ \A x \in 1..Len(calls) :
       (calls[x].at = j /\ calls[x].who = "fn" /\ FailedMatching(calls[x], j)) =>
         /\ x + 1 <= Len(calls)
         /\ calls[x + 1].at = j /\ calls[x + 1].who = "on_error"
         /\ calls[x + 1].arg = calls[x].arg
         /\ calls[x + 1].idx = calls[x].idx
         /\ calls[x + 1].exc = Exc(calls[x].out.typ, x)
  /\ Len(CallsOf(j, "on_error")) = Count(CallsOf(j, "fn"), LAMBDA c : FailedMatching(c, j))

\* C6 (as claimed): catch emits the results of the succeeding items; for every
\* item that fails with a matching exception nothing is emitted, on_error is
\* invoked once, errors is incremented by one and the run goes on to the next
\* item; at completion errors is the number of failing items.
C6_CatchHandlesEveryFailure ==
  \A j \in 1..Len(ops) :
    (ops[j].kind = "catch" /\ rpc # "build") =>
      /\ CatchHandles(j)
      /\ stats.errors = Count(CallsOf(j, "fn"), LAMBDA c : FailedMatching(c, j))
      /\ \A x \in 1..Len(calls) :
           (calls[x].at = j /\ calls[x].who = "fn" /\ FailedMatching(calls[x], j))
           => pulls[j - 1] > calls[x].idx
      /\ Returned => stats.errors = Count(CallsOf(j, "fn"), LAMBDA c : ~c.out.ok)

\* C6 (amended): as claimed, but errors is incremented and the run goes on only
\* when on_error returns; an exception raised by on_error leaves the stage
\* with errors not incremented.
C6_CatchHandlesFailureWhenOnErrorReturns ==
  \A j \in 1..Len(ops) :
    (ops[j].kind = "catch" /\ rpc # "build") =>
      /\ CatchHandles(j)
      /\ stats.errors = Count(CallsOf(j, "on_error"), LAMBDA c : c.out.ok)
      /\ \A x \in 1..Len(calls) :
           (calls[x].at = j /\ calls[x].who = "on_error") =>
             IF calls[x].out.ok
               THEN pulls[j - 1] > calls[x].idx
               ELSE /\ x = Len(calls)
                    /\ Escaping
                    /\ Escaped = Exc(calls[x].out.typ, x)
                    /\ pulls[j - 1] = calls[x].idx
      /\ Returned => stats.errors = Count(CallsOf(j, "fn"), LAMBDA c : ~c.out.ok)

\* A completed run in which catch let one item through, trapped the next and
\* went on to a third.
C6_Witness ==
  /\ Returned
  /\ Len(ops) = 1
  /\ ops[1].kind = "catch"
  /\ stats.errors = 1
  /\ Len(outs[1]) = 2
  /\ calls[2].who = "fn" /\ ~calls[2].out.ok

\* The errors counted so far by every stage: the matching failures of the
\* retry_map stages and the failures the catch stages' on_error handled.
HandledErrors ==
  Count(calls, LAMBDA c :
    /\ c.at \in 1..Len(ops)
    /\ \/ /\ ops[c.at].kind = "retry_map" /\ c.who = "fn"
          /\ FailedMatching(c, c.at)
       \/ ops[c.at].kind = "catch" /\ c.who = "on_error" /\ c.out.ok)

\* C7: a failure of fn in retry_map or catch with an exception outside the
\* declared exceptions is not handled: it is the last call made in the run (no
\* retry, no on_error), it is not counted in errors, the same exception
\* leaves run, and run never returns statistics.
C7_UndeclaredExceptionPropagates ==
  rpc # "build" =>
    /\ stats.errors = HandledErrors
    /\ \A x \in 1..Len(calls) :
         (/\ calls[x].at \in 1..Len(ops)
          /\ ops[calls[x].at].kind \in {"retry_map", "catch"}
          /\ calls[x].who = "fn"
          /\ ~calls[x].out.ok
          /\ ~Declared(calls[x].out.typ, ops[calls[x].at].excs))
         => /\ x = Len(calls)
            /\ Escaping
            /\ Escaped = Exc(calls[x].out.typ, x)
            /\ rpc # "returned"

\* retry_map trapped a ValueError, then fn raised a TypeError, which left run.
C7_Witness ==
  /\ rpc = "raised"
  /\ HasKind("retry_map")
  /\ result.typ = "TypeError"
  /\ stats.errors = 1
  /\ calls[Len(calls)].who = "fn"
  /\ ops[calls[Len(calls)].at].kind = "retry_map"

\* C8: once an exception is leaving a stage or the sink, nothing more happens
\* in the run: no sink invocation, no source pull, no call of a stage
\* function, no change of the statistics; the same exception goes on to leave
\* run, and run does not return statistics.
C8_FatalErrorAbortsRun ==
  [][Escaping =>
       /\ calls' = calls
       /\ pulls' = pulls
       /\ outs' = outs
       /\ sleeps' = sleeps
       /\ srcPos' = srcPos
       /\ stats' = stats
       /\ Escaping'
       /\ Escaped' = Escaped
       /\ rpc' # "returned"]_vars

\* An exception of the first stage's function left run after the sink had
\* received an earlier item.
C8_Witness ==
  /\ rpc = "raised"
  /\ Len(ops) = 2
  /\ result.id \in 1..Len(calls)
  /\ calls[result.id].at = 1
  /\ \E x \in 1..Len(calls) : calls[x].who = "sink" /\ calls[x].out.ok

\* The items dedupe stage j has dealt with so far, and the key value of each:
\* the item itself when key is None, else the result of key(item), which is
\* called once per item, on that item.
DedupeInputs(j) ==
  LET input == outs[j - 1] IN
    IF Fed(j) THEN SubSeq(input, 1, Len(input) - 1) ELSE input
DedupeKeys(j) ==
  IF ops[j].fn = "" THEN DedupeInputs(j) ELSE Results(CallsOf(j, "key"))
KeyCalledPerItem(j) ==
  ops[j].fn # "" =>
    /\ Len(CallsOf(j, "key")) = Len(DedupeInputs(j))
    /\ \A m \in 1..Len(DedupeInputs(j)) : CallsOf(j, "key")[m].arg = DedupeInputs(j)[m]
At(items, positions) == [m \in 1..Len(positions) |-> items[positions[m]]]
LastOf(s, k) == IF Len(s) <= k THEN s ELSE SubSeq(s, Len(s) - k + 1, Len(s))
KeySet(keys) == {keys[m] : m \in 1..Len(keys)}

\* The positions a windowed dedupe keeps: position p is suppressed exactly when
\* its key is among the k keys emitted most recently before it.
RECURSIVE KeptInWindow(_, _, _, _)
KeptInWindow(keys, k, p, kept) ==
  IF p > Len(keys) THEN kept
  ELSE IF keys[p] \in KeySet(LastOf(At(keys, kept), k))
         THEN KeptInWindow(keys, k, p + 1, kept)
         ELSE KeptInWindow(keys, k, p + 1, Append(kept, p))

RECURSIVE FirstOccurrences(_, _, _)
FirstOccurrences(items, keys, known) ==
  IF items = <<>> THEN <<>>
  ELSE IF Head(keys) \in known
         THEN FirstOccurrences(Tail(items), Tail(keys), known)
         ELSE <<Head(items)>>
                \o FirstOccurrences(Tail(items), Tail(keys), known \cup {Head(keys)})

\* C10: dedupe(key) without max_size emits exactly the first occurrence of each
\* distinct key value (key(item), or the item when key is None), in first-seen
\* order, and counts every other item in dropped; when run returns, dropped is
\* the number N of source items minus the number of distinct key values.
C10_UnboundedDedupeFirstOccurrences ==
  \A j \in 1..Len(ops) :
    (ops[j].kind = "dedupe" /\ ~ops[j].bounded /\ rpc # "build") =>
      /\ KeyCalledPerItem(j)
      /\ outs[j] = FirstOccurrences(DedupeInputs(j), DedupeKeys(j), {})
      /\ stats.dropped = Len(DedupeInputs(j)) - Len(outs[j])
      /\ (Returned /\ Len(ops) = 1) =>
           /\ DedupeInputs(j) = [m \in 1..Len(source.items) |-> Item(source.items[m])]
           /\ Len(outs[j]) = Cardinality(KeySet(DedupeKeys(j)))
           /\ stats.dropped = Len(source.items) - Cardinality(KeySet(DedupeKeys(j)))

\* dedupe(key) over five items of two key values emitted two and dropped three,
\* the dropped ones not all adjacent to their first occurrence.
C10_Witness ==
  /\ Returned
  /\ Len(ops) = 1
  /\ ops[1].kind = "dedupe" /\ ~ops[1].bounded /\ ops[1].fn = "parity"
  /\ Len(source.items) = 5
  /\ Len(outs[1]) = 2
  /\ stats.dropped = 3
  /\ outs[0][3] # outs[0][1] /\ outs[0][3] # outs[0][2]

\* The items of a sequence of groups, in order.
RECURSIVE Concat(_)
Concat(groups) ==
  IF groups = <<>> THEN <<>> ELSE Head(groups).l \o Concat(Tail(groups))
IsPrefix(s, t) == Len(s) <= Len(t) /\ s = SubSeq(t, 1, Len(s))

\* C11: batch(size), size >= 1, emits lists; every group but the last emitted
\* has exactly size items and the last has 1..size; the groups concatenated
\* are the input so far (all of it once the stage has ended); batches is the
\* number of groups; and over an input of N items a completed run has emitted
\* ceil(N / size) groups.
C11_BatchPartitionsInput ==
  \A j \in 1..Len(ops) :
    (ops[j].kind = "batch" /\ ops[j].n >= 1 /\ rpc # "build") =>
      LET groups == outs[j]
          size == ops[j].n
          N == Len(outs[j - 1])
      IN
        /\ \A g \in 1..Len(groups) :
             /\ IsList(groups[g])
             /\ Len(groups[g].l) \in 1..size
             /\ g < Len(groups) => Len(groups[g].l) = size
        /\ IsPrefix(Concat(groups), outs[j - 1])
        /\ N - Len(Concat(groups)) <= size
        /\ stats.batches = Len(groups)
        /\ Returned =>
             /\ Concat(groups) = outs[j - 1]
             /\ N = Len(source.items)
             /\ Len(groups) = (N + size - 1) \div size

\* batch(2) over five items returned after emitting two full groups and a
\* final group of one.
C11_Witness ==
  /\ Returned
  /\ Len(ops) = 1
  /\ ops[1].kind = "batch" /\ ops[1].n = 2
  /\ Len(source.items) = 5
  /\ Len(outs[1]) = 3
  /\ Len(outs[1][3].l) = 1
  /\ stats.batches = 3

\* What reaches take in the chains of endless-source runs: the source's items,
\* or those of them filter(even) lets through.
TakeInput(items) ==
  LET all == [m \in 1..Len(items) |-> Item(items[m])] IN
    IF Len(ops) = 2
      THEN SelectSeq(all, LAMBDA v : \E o \in Outcomes("even", v) : Truthy(o.val))
      ELSE all
Min(a, b) == IF a <= b THEN a ELSE b

C13_BuildersImmutable ==
  [][/\ source' = source
     /\ Len(pipes') >= Len(pipes)
     /\ \A b \in 1..Len(pipes) :
          /\ pipes'[b].src = pipes[b].src
          /\ lists'[pipes'[b].ops] = lists[pipes[b].ops]
     /\ Len(pipes') # Len(pipes) =>
          /\ Len(pipes') = Len(pipes) + 1
          /\ rpc = "build" /\ rpc' = "build"
          /\ \E b \in 1..Len(pipes) :
               LET made == lists'[pipes'[Len(pipes')].ops] IN
                 /\ pipes'[Len(pipes')].src = pipes[b].src
                 /\ Len(made) = Len(lists[pipes[b].ops]) + 1
                 /\ SubSeq(made, 1, Len(made) - 1) = lists[pipes[b].ops]
                 /\ ops' = made
     /\ (rpc = "build" /\ rpc' = "running") =>
          \E b \in 1..Len(pipes) : ops' = lists[pipes[b].ops]
     /\ rpc # "build" => ops' = ops
    ]_vars

\* Two different builders were made from the first one, and then the first
\* one was run to its end: it emitted every source item.
C13_Witness ==
  /\ Returned
  /\ Len(pipes) >= 3
  /\ Len(OpsOf(2)) = 1 /\ Len(OpsOf(3)) = 1 /\ OpsOf(2) # OpsOf(3)
  /\ ops = <<>>
  /\ Len(source.items) = 2
  /\ stats.emitted = 2

\* C14: building is lazy.  While the builder is being built no user function
\* has been called, no item has been pulled from the source and no stage has
\* been asked for a value; every call, pull and sleep is a step of a run.
C14_NothingRunsBeforeRun ==
  /\ [](rpc = "build" =>
          /\ calls = <<>> /\ sleeps = <<>> /\ srcPos = 0
          /\ pulls = <<>> /\ outs = <<>>
          /\ stats = NewStats /\ now = 0)
  /\ [][(calls' # calls \/ sleeps' # sleeps \/ srcPos' # srcPos \/ pulls' # pulls
           \/ outs' # outs \/ stats' # stats)
        => rpc' # "build" /\ (rpc = "running" \/ rpc' = "running")]_vars

\* A chain of a tap and a map has been built and not run: neither function
\* has been called.
C14_Witness ==
  /\ rpc = "build"
  /\ Len(ops) = 2
  /\ ops[1] = TapOp("note") /\ ops[2] = MapOp("fail2")
  /\ Len(source.items) = 3
  /\ calls = <<>>

\* Two runs emitted the same sequence and ended with the same statistics
\* other than the duration.
SameRun(a, b) ==
  /\ a.out = b.out
  /\ \A f \in {"processed", "emitted", "dropped", "batches", "errors"} :
       a.stats[f] = b.stats[f]

\* C15: two runs of one builder over a re-iterable source, with deterministic
\* stage functions, emit the same sequence and end with the same processed,
\* emitted, dropped, batches and errors; the second run starts from a zeroed
\* statistics record, new generators and the first source item.
C15_RunsAreIndependent ==
  /\ [](\A m, k \in 1..Len(done) : SameRun(done[m], done[k]))
  /\ [][(rpc = "returned" /\ rpc' = "running") =>
          /\ stats' = NewStats
          /\ srcPos' = 0
          /\ ops' = ops
          /\ \A i \in 1..Len(ops) : gen'[i] = NewGen]_vars

\* A chain with a dedupe was run twice; each run emitted two items and dropped
\* one.
C15_Witness ==
  /\ Len(done) = 2
  /\ HasKind("dedupe")
  /\ Len(done[2].out) = 2
  /\ done[2].stats.dropped = 1
  /\ done[1].stats.dropped = 1

\* What run's loop has taken from the last stage: all it yielded, but for a
\* value yielded and not yet taken.
Delivered ==
  LET final == outs[Last] IN
    IF ctl.k = "yield" /\ ctl.at = Last
      THEN SubSeq(final, 1, Len(final) - 1) ELSE final
Args(cs) == [k \in 1..Len(cs) |-> cs[k].arg]

\* C16: in every run, processed is the number of items pulled from the source
\* and emitted is the number of values run's loop took from the last stage;
\* a sink, when given, has been called once on each of those values, in
\* order, and never otherwise; when run returns, emitted is the number of
\* values the last stage produced.
C16_StatsCountSourceAndSink ==
  rpc # "build" =>
    /\ stats.processed = srcPos
    /\ stats.processed = Len(outs[0])
    /\ stats.emitted = Len(Delivered)
    /\ Args(CallsOf(Last + 1, "sink")) = (IF sink = "" THEN <<>> ELSE Delivered)
    /\ Returned =>
         /\ stats.emitted = Len(outs[Last])
         /\ \A c \in 1..Len(calls) : calls[c].who = "sink" => calls[c].out.ok

\* A run with a sink returned after pulling three items and passing two
\* values to the sink.
C16_Witness ==
  /\ Returned
  /\ sink # ""
  /\ stats.processed = 3
  /\ stats.emitted = 2
  /\ Len(CallsOf(Last + 1, "sink")) = 2

\* The value is true in Python's sense: not None, False, 0 or an empty list.
IsTrue(v) == v \notin {None, Bool(FALSE), Item(0), List(<<>>)}
Accepted(c) == c.out.ok /\ IsTrue(c.out.val)
Rejected(c) == c.out.ok /\ ~IsTrue(c.out.val)

\* C17: filter(p) calls p once on each input item, in order; it emits,
\* unchanged and in order, exactly the items for which p returned a true
\* value, and counts one dropped for each item for which p returned a false
\* one: dropped is the number of items the filters of the chain rejected, and
\* after a completed run of one filter it is N minus the number emitted.
C17_FilterKeepsAccepted ==
  rpc # "build" =>
    /\ \A j \in 1..Len(ops) :
         ops[j].kind = "filter" =>
           /\ IsPrefix(Args(CallsOf(j, "fn")), outs[j - 1])
           /\ Len(outs[j - 1]) - Len(CallsOf(j, "fn")) <= 1
           /\ outs[j] = Args(SelectSeq(CallsOf(j, "fn"), Accepted))
    /\ stats.dropped = Count(calls, LAMBDA c : c.who = "fn" /\ Rejected(c))
    /\ (Returned /\ Len(ops) = 1) =>
         /\ Args(CallsOf(1, "fn")) = outs[0]
         /\ stats.dropped = Len(source.items) - stats.emitted

\* filter(lambda x: x % 2) returned after keeping the two odd items of four
\* and dropping the two even ones.
C17_Witness ==
  /\ Returned
  /\ Len(ops) = 1
  /\ ops[1] = FilterOp("parity")
  /\ source.items = <<1, 2, 2, 1>>
  /\ outs[1] = <<Item(1), Item(1)>>
  /\ stats.dropped = 2

\* C18: rate_limit emits every input item unchanged, once and in order.  The
\* first item is emitted without a sleep.  A later item is emitted at a clock
\* value at least min_interval after the emission time recorded for the
\* previous item; the stage sleeps only when the clock it reads on the item's
\* arrival says that less than min_interval has elapsed, once, and for
\* exactly what is missing.
C18_RateLimitSpacesItems ==
  /\ [](\A j \in 1..Len(ops) :
          (ops[j].kind = "rate_limit" /\ rpc # "build") =>
            /\ outs[j] = DedupeInputs(j)
            /\ stats.dropped = 0)
  /\ [][\A j \in 1..Len(ops) :
          (ops[j].kind = "rate_limit" /\ rpc = "running" /\ outs'[j] # outs[j]) =>
            LET last == gen[j].last_time
                slept == IF Len(sleeps') > Len(sleeps) THEN sleeps'[Len(sleeps')] ELSE 0
            IN
              /\ outs'[j] = Append(outs[j], ctl.v)
              /\ Len(sleeps') <= Len(sleeps) + 1
              /\ gen'[j].last_time <= now' /\ gen'[j].last_time >= now + slept
              /\ IF Len(outs[j]) = 0
                   THEN slept = 0 /\ last = -1
                   ELSE /\ last # -1
                        /\ gen'[j].last_time - last >= ops[j].secs
                        /\ \E read \in now..(now + MaxDrift) :
                             /\ slept = (IF read - last < ops[j].secs
                                           THEN ops[j].secs - (read - last) ELSE 0)
                             /\ gen'[j].last_time >= read + slept
       ]_vars

\* rate_limit with a min_interval of 2 emitted three items, sleeping before
\* the second and the third; the run took at least 4 ticks.
C18_Witness ==
  /\ Returned
  /\ Len(ops) = 1
  /\ ops[1].kind = "rate_limit" /\ ops[1].secs = 2
  /\ Len(outs[1]) = 3
  /\ Len(sleeps) = 2
  /\ stats.duration >= 4

\* The items stages 1..j that are filters or dedupes have taken and not
\* passed on.
RECURSIVE RejectedUpTo(_)
RejectedUpTo(j) ==
  IF j = 0 THEN 0
  ELSE RejectedUpTo(j - 1)
         + (IF ops[j].kind \in {"filter", "dedupe"}
              THEN Len(DedupeInputs(j)) - Len(outs[j]) ELSE 0)

\* C19: in a chain of map, tap, filter and dedupe, at most one item is in
\* flight: 0 <= processed - emitted - dropped <= 1 in every state of a run;
\* the source is pulled for another item only when every earlier item has
\* been dropped or been counted emitted and passed to the sink; dropped is the
\* number of items the filter and dedupe stages rejected; and when run
\* returns, processed = emitted + dropped.
C19_StreamingConservation ==
  /\ [](rpc # "build" =>
          /\ stats.processed - stats.emitted - stats.dropped \in {0, 1}
          /\ stats.dropped = RejectedUpTo(Len(ops))
          /\ Returned => stats.processed = stats.emitted + stats.dropped)
  /\ [][(rpc = "running" /\ srcPos' # srcPos) =>
          /\ stats.processed = stats.emitted + stats.dropped
          /\ sink # "" => Len(CallsOf(Last + 1, "sink")) = stats.emitted
          /\ stats'.processed - stats'.emitted - stats'.dropped = 1]_vars

\* filter(even) then dedupe returned after three items: the filter rejected
\* one, the dedupe another, and one reached the sink.
C19_Witness ==
  /\ Returned
  /\ Len(ops) = 2
  /\ ops[1].kind = "filter" /\ ops[2].kind = "dedupe"
  /\ sink # ""
  /\ stats.processed = 3
  /\ Len(outs[1]) = 2
  /\ Len(outs[2]) = 1
  /\ stats.dropped = 2 /\ stats.emitted = 1

\* The call was made by the source, by a stage before stage j, or is a call
\* of stage j's on_error, and it raised.
RaisedAround(c, j) ==
  /\ ~c.out.ok
  /\ c.at < j \/ (c.at = j /\ c.who = "on_error")

\* C20: catch and retry_map trap only what their own fn raises on the current
\* item.  An exception raised by the source, by an earlier stage or by
\* on_error, of whatever type, is the last call of the run: no on_error call
\* and no retry follows, errors counts only the handled failures of fn, and
\* the same exception leaves the stage and then run, which returns nothing.
\* The step of the stage that receives the exception from its input passes
\* it on and does nothing else.
C20_OnlyOwnFnIsGuarded ==
  /\ [](\A j \in 1..Len(ops) :
          (ops[j].kind \in {"catch", "retry_map"} /\ rpc # "build") =>
            /\ stats.errors = HandledErrors
            /\ \A x \in 1..Len(calls) :
                 RaisedAround(calls[x], j) =>
                   /\ x = Len(calls)
                   /\ Escaping
                   /\ Escaped = Exc(calls[x].out.typ, x)
                   /\ rpc # "returned"
                   /\ ctl.k = "raise" => ctl.at >= calls[x].at)
  /\ [][\A j \in 1..Len(ops) :
          (ops[j].kind \in {"catch", "retry_map"} /\ rpc = "running" /\ InputRaised(j)) =>
            /\ ctl' = Tok("raise", j, None, ctl.exc)
            /\ calls' = calls /\ stats' = stats /\ pulls' = pulls /\ sleeps' = sleeps
       ]_vars

\* A ValueError of a map placed before a stage that declares ValueError (or
\* Exception) left run: the stage trapped nothing.
C20_Witness ==
  /\ rpc = "raised"
  /\ Len(ops) = 2
  /\ ops[1] = MapOp("fail2")
  /\ ops[2].kind \in {"catch", "retry_map"}
  /\ result.typ = "ValueError"
  /\ Declared(result.typ, ops[2].excs)
  /\ calls[result.id].at = 1
  /\ stats.errors = 0
  /\ stats.processed = 2

====
